---------------------------- MODULE Spec2Model ----------------------------
(***************************************************************************)
(* A model of excel.py, the document uploader: the module-level credential *)
(* check, main's setup, the row loop, download_file and upload_to_supabase *)
(* with the two service helpers.  Text that the program parses (links) is   *)
(* a sequence of one-character strings, so that `in`, str.split and string  *)
(* concatenation are computed the way Python computes them.                 *)
(***************************************************************************)
EXTENDS Integers, Sequences, FiniteSets, TLC

VARIABLES
    pc,                  \* position of the single thread of control
    exit_status,         \* -1 while running, else the process's exit status
    args,                \* which optional column bindings apply (main 315, 321)
    nrows,               \* len(df)
    index,               \* 1-based number of the row the loop is at (0: none yet)
    rows,                \* the rows df.iterrows() has yielded so far
    temp_dir,            \* "none" | "live" | "deleted"
    created,             \* how many times the scratch directory was created
    deleted,             \* how many times it was deleted
    files,               \* names of the files written into the scratch directory
    successful_uploads,
    failed_uploads,
    url,                 \* download_file's url after the rewrite of 140-145
    metadata,            \* main's per-row metadata dict
    filename,            \* the downloaded file's name
    document_id,         \* upload_to_supabase's document_id
    uuids,               \* how many identifiers uuid.uuid4() has handed out
    requests             \* every HTTP request issued so far, in order

vars == <<pc, exit_status, args, nrows, index, rows, temp_dir, created, deleted,
          files, successful_uploads, failed_uploads, url, metadata, filename,
          document_id, uuids, requests>>

-----------------------------------------------------------------------------
(* Bounds *)

\* rows in the spreadsheet
MaxRows == 2

\* pieces that follow the host in a raw link
MaxSegs == 3

-----------------------------------------------------------------------------
(* Text *)

HostDrive == <<"d","r","i","v","e",".","g","o","o","g","l","e",".","c","o","m">>

HostDocs == <<"d","o","c","s",".","g","o","o","g","l","e",".","c","o","m">>

FileD == <<"/","f","i","l","e","/","d","/">>

OpenId == <<"o","p","e","n","?","i","d","=">>

Https == <<"h","t","t","p","s",":","/","/">>

UcExport == <<"/","u","c","?","e","x","p","o","r","t","=","d","o","w","n","l","o","a","d","&","i","d","=">>

\* 'drive.google.com/file/d/'
DriveFileMarker == HostDrive \o FileD

\* 'drive.google.com/open?id='
DriveOpenMarker == HostDrive \o <<"/">> \o OpenId

\* f"https://drive.google.com/uc?export=download&id={file_id}"
DirectDownload(file_id) == Https \o HostDrive \o UcExport \o file_id

\* s.find(sep) + 1: the 1-based place of the first occurrence of sep, 0 if none
IndexOf(s, sep) ==
    LET hits == {i \in 1..(Len(s) - Len(sep) + 1) : SubSeq(s, i, i + Len(sep) - 1) = sep}
    IN IF hits = {} THEN 0 ELSE CHOOSE i \in hits : \A j \in hits : i <= j

\* sub in s
Contains(s, sub) == IndexOf(s, sub) # 0

\* s.split(sep): the parts between the non-overlapping occurrences of sep,
\* scanned from the left
RECURSIVE Split(_, _)
Split(s, sep) ==
    LET i == IndexOf(s, sep)
    IN IF i = 0 THEN <<s>>
       ELSE <<SubSeq(s, 1, i - 1)>> \o Split(SubSeq(s, i + Len(sep), Len(s)), sep)

\* url.split('/file/d/')[1].split('/')[0].split('?')[0] without the '?' step
FileIdKeepQuery(u) == Split(Split(u, FileD)[2], <<"/">>)[1]

\* download_file's rewrite of Google Drive sharing links
ResolveLinkNoStrip(u) ==
    IF Contains(u, DriveFileMarker)
    THEN DirectDownload(FileIdKeepQuery(u))
    ELSE IF Contains(u, DriveOpenMarker)
         THEN DirectDownload(Split(Split(u, OpenId)[2], <<"&">>)[1])
         ELSE u

ResolveLink(u) ==
    IF Contains(u, DriveFileMarker)
    THEN DirectDownload(Split(Split(Split(u, FileD)[2], <<"/">>)[1], <<"?">>)[1])
    ELSE IF Contains(u, DriveOpenMarker)
         THEN DirectDownload(Split(Split(u, OpenId)[2], <<"&">>)[1])
         ELSE u

-----------------------------------------------------------------------------
(* Spreadsheet cells, rows and the per-row metadata *)

\* a raw link the spreadsheet can hold as text
SampleLink == Https \o DriveFileMarker \o <<"a","/","v","?","u">>

NaNCell == [type |-> "nan", text |-> <<>>]

NumberCell == [type |-> "int", text |-> <<>>]

TextCell(t) == [type |-> "str", text |-> t]

\* what the link column of a row can hold
LinkCells == {NaNCell, NumberCell, TextCell(<<>>), TextCell(<<" ">>), TextCell(SampleLink)}

\* what the date column of a row can hold: NaN, a Timestamp, a string
DateCells == {"NaN", "Timestamp", "str"}

\* what the name column of a row can hold
NameCells == {"Annual report"}

\* names a response's headers and the URL can give the downloaded file
Filenames == {"Report.PDF", "notes"}

\* str.strip(): leading and trailing whitespace removed
RECURSIVE LStrip(_)
LStrip(s) == IF s # <<>> /\ Head(s) = " " THEN LStrip(Tail(s)) ELSE s

RECURSIVE RStrip(_)
RStrip(s) == IF s # <<>> /\ s[Len(s)] = " " THEN RStrip(SubSeq(s, 1, Len(s) - 1)) ELSE s

Strip(s) == RStrip(LStrip(s))

\* line 305 raises AttributeError: the cell is not NaN and has no strip()
StripRaises(cell) == cell.type \notin {"nan", "str"}

\* line 305 with whitespace-only text let through
IsBlankNoStrip(cell) == cell.type = "nan" \/ (cell.type = "str" /\ cell.text = <<>>)

\* pd.isna(url) or not url.strip(), for a cell on which it does not raise
IsBlank(cell) == cell.type = "nan" \/ (cell.type = "str" /\ Strip(cell.text) = <<>>)

\* Python's None, and the timestamps of a record: the clock's (datetime.now())
\* and those a date cell supplies
None == [kind |-> "None", v |-> 0]

Supplied == [kind |-> "supplied", v |-> 0]

Now == [kind |-> "now", v |-> Len(requests)]

\* main 311-334: the keys of the row's metadata dict
MetadataKeys(row) ==
    {"url"}
    \cup (IF args.name_column THEN {"name"} ELSE {})
    \cup (IF args.date_column /\ row.date \in {"Timestamp", "str"} THEN {"date"} ELSE {})

BuildMetadata(row) ==
    [k \in MetadataKeys(row) |->
        CASE k = "url" -> row.link.text
          [] k = "name" -> row.name
          [] k = "date" -> Supplied]

\* None where a URL is expected
NoUrl == <<>>

\* dict.get(key, default)
Get(m, k, default) == IF k \in DOMAIN m THEN m[k] ELSE default

\* the truth value of a dict
Truthy(m) == DOMAIN m # {}

\* f"{document_id}/{filename}" built from another identifier
StoragePathOther(id, name) == <<id + 1, "/", name>>

\* f"{document_id}/{filename}"
StoragePath(id, name) == <<id, "/", name>>

\* upload_to_supabase 239-246
DocMetadata(m, name, now) ==
    [title |-> IF Truthy(m) THEN Get(m, "name", name) ELSE name,
     upload_date |-> now,
     last_modified |-> IF Truthy(m) THEN Get(m, "date", None) ELSE now,
     source_url |-> IF Truthy(m) THEN Get(m, "url", NoUrl) ELSE NoUrl]

\* upload_to_supabase 249-260: the record sent to the catalog
DocumentRecord(id, name, m, now) ==
    [id |-> id,
     filename |-> name,
     storage_path |-> StoragePath(id, name),
     title |-> DocMetadata(m, name, now).title,
     upload_date |-> DocMetadata(m, name, now).upload_date,
     last_modified |-> DocMetadata(m, name, now).last_modified,
     metadata |-> DocMetadata(m, name, now)]

-----------------------------------------------------------------------------
(* Service responses.  exc: the request raised; status: the HTTP status;   *)
(* ok: the body is usable (the download was written, the storage answer    *)
(* holds a non-empty 'Key', the catalog answer is a non-empty body).       *)

Response(exc, status, ok) == [exc |-> exc, status |-> status, ok |-> ok]

GetResponses ==
    {Response(TRUE, 0, FALSE), Response(FALSE, 404, FALSE),
     Response(FALSE, 200, FALSE), Response(FALSE, 200, TRUE)}

UploadResponses ==
    {Response(TRUE, 0, FALSE), Response(FALSE, 500, FALSE),
     Response(FALSE, 200, FALSE), Response(FALSE, 200, TRUE)}

InsertResponses ==
    {Response(TRUE, 0, FALSE), Response(FALSE, 409, FALSE),
     Response(FALSE, 201, FALSE), Response(FALSE, 201, TRUE)}

\* download_file returns a path: no exception in 148-182
DownloadOk(resp) == ~resp.exc /\ resp.status = 200 /\ resp.ok

\* line 231 without the test of 'Key'
UploadOkAnyBody(resp) == ~resp.exc /\ resp.status = 200

\* supabase_upload_file 99-103 and line 231: a result with a non-empty 'Key'
UploadOk(resp) == ~resp.exc /\ resp.status = 200 /\ resp.ok

\* line 262 with every answered request taken for a success
InsertOkAnyStatus(resp) == ~resp.exc

\* supabase_insert_record 118-122 and line 262: a non-empty db_result
InsertOk(resp) == ~resp.exc /\ resp.status = 201 /\ resp.ok

\* one entry of the request log; name: the file name a download's response
\* headers and URL give (download_file 152-164), "" for the other requests
Request(kind, target, resp, name) ==
    [row |-> index, kind |-> kind, target |-> target, resp |-> resp, name |-> name]

-----------------------------------------------------------------------------
(* The program *)

NoArgs == [name_column |-> FALSE, date_column |-> FALSE]

NoMetadata == <<>>

Init ==
    /\ pc = "import"
    /\ exit_status = -1
    /\ args = NoArgs
    /\ nrows = 0
    /\ index = 0
    /\ rows = <<>>
    /\ temp_dir = "none"
    /\ created = 0
    /\ deleted = 0
    /\ files = {}
    /\ successful_uploads = 0
    /\ failed_uploads = 0
    /\ url = <<>>
    /\ metadata = NoMetadata
    /\ filename = ""
    /\ document_id = 0
    /\ uuids = 0
    /\ requests = <<>>

\* sys.exit(status)
Exit(status) ==
    /\ pc' = "exited"
    /\ exit_status' = status

\* the scratch directory when the with block of line 294 is left only by
\* falling off its end, not by an exception
LeaveWithNoCleanupOnError(raised) ==
    IF raised THEN [temp_dir |-> temp_dir, deleted |-> deleted, files |-> files]
    ELSE [temp_dir |-> "deleted", deleted |-> deleted + 1, files |-> {}]

\* leaving the with block of line 294, normally or by an exception:
\* TemporaryDirectory removes the directory and all it holds
LeaveWith(raised) ==
    [temp_dir |-> "deleted", deleted |-> deleted + 1, files |-> {}]

\* the row's locals, dead once the row is done
DropLocals ==
    /\ url' = <<>>
    /\ metadata' = NoMetadata
    /\ filename' = ""
    /\ document_id' = 0

\* where control goes after a row failed, were the failed step tried again
AfterFailureRetry == pc

\* after a failed row: `continue` (342), or the end of the loop body (350)
AfterFailure == "loop"

\* 347-350 with the two counters swapped
CountedSwapped(ok) ==
    IF ok THEN [successful_uploads |-> successful_uploads, failed_uploads |-> failed_uploads + 1]
    ELSE [successful_uploads |-> successful_uploads + 1, failed_uploads |-> failed_uploads]

\* main 339-342 and 347-350: the counters after a row that reached a download
Counted(ok) ==
    IF ok THEN [successful_uploads |-> successful_uploads + 1, failed_uploads |-> failed_uploads]
    ELSE [successful_uploads |-> successful_uploads, failed_uploads |-> failed_uploads + 1]

\* the row is done: count it and go on with the loop
FinishRow(ok) ==
    /\ successful_uploads' = Counted(ok).successful_uploads
    /\ failed_uploads' = Counted(ok).failed_uploads
    /\ pc' = IF ok THEN "loop" ELSE AfterFailure
    /\ IF pc' = "loop" THEN DropLocals
       ELSE UNCHANGED <<url, metadata, filename, document_id>>

\* lines 73-79, at import
CheckCredentials ==
    /\ pc = "import"
    /\ \E found \in BOOLEAN :
         IF found THEN pc' = "main" /\ UNCHANGED exit_status ELSE Exit(1)
    /\ UNCHANGED <<args, nrows, index, rows, temp_dir, created, deleted, files,
                   successful_uploads, failed_uploads, url, metadata, filename,
                   document_id, uuids, requests>>

\* main 275-280
CheckExcelFile ==
    /\ pc = "main"
    /\ \E exists \in BOOLEAN :
         IF exists THEN pc' = "read_excel" /\ UNCHANGED exit_status ELSE Exit(1)
    /\ UNCHANGED <<args, nrows, index, rows, temp_dir, created, deleted, files,
                   successful_uploads, failed_uploads, url, metadata, filename,
                   document_id, uuids, requests>>

\* main 283-291 (and 360-362 when read_excel raises)
ReadExcel ==
    /\ pc = "read_excel"
    /\ \E readable \in BOOLEAN, has_column \in BOOLEAN, n \in 0..MaxRows,
          a \in [name_column : BOOLEAN, date_column : BOOLEAN] :
         IF readable /\ has_column
         THEN /\ pc' = "mkdtemp"
              /\ nrows' = n
              /\ args' = a
              /\ UNCHANGED exit_status
         ELSE /\ Exit(1)
              /\ UNCHANGED <<nrows, args>>
    /\ UNCHANGED <<index, rows, temp_dir, created, deleted, files,
                   successful_uploads, failed_uploads, url, metadata, filename,
                   document_id, uuids, requests>>

\* main 294-299
CreateTempDir ==
    /\ pc = "mkdtemp"
    /\ temp_dir' = "live"
    /\ created' = created + 1
    /\ files' = {}
    /\ successful_uploads' = 0
    /\ failed_uploads' = 0
    /\ pc' = "loop"
    /\ UNCHANGED <<exit_status, args, nrows, index, rows, deleted, url, metadata,
                   filename, document_id, uuids, requests>>

\* main 301-334: the loop takes the next row
IterRow ==
    /\ pc = "loop"
    /\ index < nrows
    /\ \E link \in LinkCells,
          name \in NameCells,
          date \in (IF args.date_column THEN DateCells ELSE {"NaN"}) :
         LET row == [link |-> link, name |-> name, date |-> date] IN
         /\ index' = index + 1
         /\ rows' = Append(rows, row)
         /\ IF StripRaises(link)
            THEN \* AttributeError leaves the with block and reaches line 360
                 /\ temp_dir' = LeaveWith(TRUE).temp_dir
                 /\ deleted' = LeaveWith(TRUE).deleted
                 /\ files' = LeaveWith(TRUE).files
                 /\ Exit(1)
                 /\ UNCHANGED metadata
            ELSE /\ UNCHANGED <<temp_dir, deleted, files, exit_status>>
                 /\ IF IsBlank(link)
                    THEN pc' = "loop" /\ UNCHANGED metadata
                    ELSE pc' = "resolve" /\ metadata' = BuildMetadata(row)
    /\ UNCHANGED <<args, nrows, created, successful_uploads, failed_uploads, url,
                   filename, document_id, uuids, requests>>

\* download_file 139-147
ResolveStep ==
    /\ pc = "resolve"
    /\ url' = ResolveLink(rows[index].link.text)
    /\ pc' = "get"
    /\ UNCHANGED <<exit_status, args, nrows, index, rows, temp_dir, created, deleted,
                   files, successful_uploads, failed_uploads, metadata, filename,
                   document_id, uuids, requests>>

\* download_file 148-185 and main 339-342
FetchStep ==
    /\ pc = "get"
    /\ \E resp \in GetResponses, name \in Filenames :
         /\ requests' = Append(requests,
                Request("GET", url, resp, IF ~resp.exc /\ resp.status = 200 THEN name ELSE ""))
         /\ files' = IF ~resp.exc /\ resp.status = 200 THEN files \cup {name} ELSE files
         /\ IF DownloadOk(resp)
            THEN /\ filename' = name
                 /\ pc' = "upload"
                 /\ UNCHANGED <<successful_uploads, failed_uploads, url, metadata, document_id>>
            ELSE FinishRow(FALSE)
    /\ UNCHANGED <<exit_status, args, nrows, index, rows, temp_dir, created, deleted, uuids>>

\* upload_to_supabase 205-233 (269-271 when the request raises), main 347-350
StorageUploadStep ==
    /\ pc = "upload"
    /\ uuids' = uuids + 1
    /\ \E resp \in UploadResponses :
         /\ requests' = Append(requests, Request("UPLOAD", StoragePath(uuids', filename), resp, ""))
         /\ IF UploadOk(resp)
            THEN /\ document_id' = uuids'
                 /\ pc' = "insert"
                 /\ UNCHANGED <<successful_uploads, failed_uploads, url, metadata, filename>>
            ELSE FinishRow(FALSE)
    /\ UNCHANGED <<exit_status, args, nrows, index, rows, temp_dir, created, deleted, files>>

\* upload_to_supabase 235-267 (269-271 when the request raises), main 347-350
CatalogInsertStep ==
    /\ pc = "insert"
    /\ \E resp \in InsertResponses :
         /\ requests' = Append(requests,
                Request("INSERT", DocumentRecord(document_id, filename, metadata, Now), resp, ""))
         /\ FinishRow(InsertOk(resp))
    /\ UNCHANGED <<exit_status, args, nrows, index, rows, temp_dir, created, deleted,
                   files, uuids>>

\* main 352-358, then the end of the with block and of main
PrintSummary ==
    /\ pc = "loop"
    /\ index = nrows
    /\ temp_dir' = LeaveWith(FALSE).temp_dir
    /\ deleted' = LeaveWith(FALSE).deleted
    /\ files' = LeaveWith(FALSE).files
    /\ Exit(0)
    /\ UNCHANGED <<args, nrows, index, rows, created, successful_uploads,
                   failed_uploads, url, metadata, filename, document_id, uuids, requests>>

Next ==
    \/ CheckCredentials
    \/ CheckExcelFile
    \/ ReadExcel
    \/ CreateTempDir
    \/ IterRow
    \/ ResolveStep
    \/ FetchStep
    \/ StorageUploadStep
    \/ CatalogInsertStep
    \/ PrintSummary

Spec == Init /\ [][Next]_vars

-----------------------------------------------------------------------------
(* download_file entered with any raw link *)

\* the hosts raw links start with
Hosts == {HostDrive, HostDocs}

\* the pieces the rest of a raw link is put together from
Pieces == {HostDrive, FileD, <<"/">> \o OpenId, <<"/">>, <<"?">>, <<"&">>, <<"a">>}

RECURSIVE Concat(_)
Concat(ps) == IF ps = <<>> THEN <<>> ELSE Head(ps) \o Concat(Tail(ps))

\* every text of a host and up to MaxSegs pieces: none of them is blank
RawLinks ==
    UNION {{h \o Concat(ps) : h \in Hosts, ps \in [1..n -> Pieces]} : n \in 0..MaxSegs}

\* main has read a one-row sheet whose link cell holds some text and is about
\* to call download_file on it
ResolveInit ==
    /\ pc = "resolve"
    /\ exit_status = -1
    /\ args = NoArgs
    /\ nrows = 1
    /\ index = 1
    /\ \E raw \in RawLinks :
         /\ rows = <<[link |-> TextCell(raw), name |-> "Annual report", date |-> "NaN"]>>
         /\ metadata = [k \in {"url"} |-> raw]
    /\ temp_dir = "live"
    /\ created = 1
    /\ deleted = 0
    /\ files = {}
    /\ successful_uploads = 0
    /\ failed_uploads = 0
    /\ url = <<>>
    /\ filename = ""
    /\ document_id = 0
    /\ uuids = 0
    /\ requests = <<>>

ResolveNext == ResolveStep

ResolveSpec == ResolveInit /\ [][ResolveNext]_vars

-----------------------------------------------------------------------------
(* What the claims speak of, read off the rows and the request log *)

\* the places in the log of row r's requests of one kind
RequestsOf(r, kind) ==
    {i \in DOMAIN requests : requests[i].row = r /\ requests[i].kind = kind}

\* a response that is a success: no error raised, the status the service's
\* contract names, and a usable body
Good(resp, status) == ~resp.exc /\ resp.status = status /\ resp.ok

GoodRequest(e) ==
    Good(e.resp, IF e.kind = "INSERT" THEN 201 ELSE 200)

\* a blank link cell: absent, empty, or nothing but whitespace
BlankCell(cell) ==
    \/ cell.type = "nan"
    \/ cell.type = "str" /\ \A i \in DOMAIN cell.text : cell.text[i] = " "

\* a date was supplied for row r
DateSupplied(r) == args.date_column /\ rows[r].date # "NaN"

\* the file name row r's download gave
NameOfRow(r) == requests[CHOOSE i \in RequestsOf(r, "GET") : TRUE].name

-----------------------------------------------------------------------------
(* C1 *)

\* C1: a catalog insert is issued only after the storage upload of the same
\* document answered 200 with a non-empty 'Key'; a row whose upload raised,
\* answered another status or answered without 'Key' has no catalog insert.
C1_InsertOnlyAfterUpload ==
    /\ \A i \in DOMAIN requests :
         requests[i].kind = "INSERT" =>
           \E j \in 1..(i - 1) :
             /\ requests[j].kind = "UPLOAD"
             /\ requests[j].row = requests[i].row
             /\ requests[j].target = requests[i].target.storage_path
             /\ Good(requests[j].resp, 200)
    /\ \A j \in DOMAIN requests :
         (requests[j].kind = "UPLOAD" /\ ~Good(requests[j].resp, 200)) =>
           RequestsOf(requests[j].row, "INSERT") = {}

\* a run that ended with an insert for one row and, for another row, an
\* upload answered 200 without 'Key'
C1_Witness ==
    /\ exit_status = 0
    /\ \E i, j \in DOMAIN requests :
         /\ requests[i].kind = "INSERT"
         /\ requests[j].kind = "UPLOAD"
         /\ requests[j].resp = Response(FALSE, 200, FALSE)
         /\ requests[j].row # requests[i].row

-----------------------------------------------------------------------------
(* C2 *)

\* the counters after a step that failed the row, and after one that
\* completed it
CountsFailure ==
    /\ failed_uploads' = failed_uploads + 1
    /\ successful_uploads' = successful_uploads
    /\ pc' = "loop"
    /\ index' = index

CountsSuccess ==
    /\ successful_uploads' = successful_uploads + 1
    /\ failed_uploads' = failed_uploads
    /\ pc' = "loop"
    /\ index' = index

\* C2: in the row loop, a step whose request fails (the download, the storage
\* upload or the catalog insert) adds exactly one to failed_uploads, leaves
\* successful_uploads alone and goes on with the next row; the step that
\* completes the row (a successful catalog insert after a successful download
\* and upload) adds exactly one to successful_uploads and leaves
\* failed_uploads alone; a request that succeeds earlier in the row changes
\* neither counter.
C2_RowCountedOnce ==
    [][ Len(requests') = Len(requests) + 1 =>
          LET e == requests'[Len(requests')] IN
          IF ~GoodRequest(e) THEN CountsFailure
          ELSE IF e.kind = "INSERT" THEN CountsSuccess
          ELSE /\ successful_uploads' = successful_uploads
               /\ failed_uploads' = failed_uploads ]_vars

\* one row ingested, and one row failed by a refused catalog insert
C2_Witness ==
    /\ successful_uploads = 1
    /\ failed_uploads = 1
    /\ \E i \in DOMAIN requests :
         requests[i].kind = "INSERT" /\ requests[i].resp = Response(FALSE, 409, FALSE)

-----------------------------------------------------------------------------
(* C3 *)

\* C3: once the row loop has started the process never exits with a nonzero
\* status, whatever the cells hold and the services answer: a nonzero exit
\* happens only before any row is touched.
C3_FatalOnlyBeforeRows ==
    (pc = "exited" /\ exit_status # 0) => index = 0

-----------------------------------------------------------------------------
(* C4 *)

\* C4: a row whose link cell is blank (NaN, empty or whitespace-only) has no
\* request in the log, and the step that takes it from the sheet changes
\* neither counter and goes straight on to the next row.
C4_BlankRowSkipped ==
    /\ [](\A r \in DOMAIN rows :
            BlankCell(rows[r].link) => \A i \in DOMAIN requests : requests[i].row # r)
    /\ [][ (index' = index + 1 /\ BlankCell(rows'[index'].link)) =>
             /\ successful_uploads' = successful_uploads
             /\ failed_uploads' = failed_uploads
             /\ requests' = requests
             /\ pc' = "loop" ]_vars

\* a finished run over a whitespace-only row and a row that was downloaded
C4_Witness ==
    /\ exit_status = 0
    /\ \E r \in DOMAIN rows : rows[r].link = TextCell(<<" ">>)
    /\ requests # <<>>
    /\ successful_uploads + failed_uploads = 1

-----------------------------------------------------------------------------
(* C5 *)

\* C5: every storage upload uses the key '{id}/{filename}' of an identifier
\* generated for it and the file name of the row's download; a catalog record
\* carries the identifier and the key of its row's upload; the identifiers of
\* different uploads differ.
C5_SharedIdentifier ==
    /\ \A i \in DOMAIN requests :
         requests[i].kind = "UPLOAD" =>
           /\ requests[i].target[1] \in 1..uuids
           /\ requests[i].target =
                <<requests[i].target[1], "/", NameOfRow(requests[i].row)>>
    /\ \A i \in DOMAIN requests :
         requests[i].kind = "INSERT" =>
           \E j \in RequestsOf(requests[i].row, "UPLOAD") :
             /\ j < i
             /\ requests[i].target.id = requests[j].target[1]
             /\ requests[i].target.storage_path = requests[j].target
             /\ requests[i].target.storage_path =
                  <<requests[i].target.id, "/", NameOfRow(requests[i].row)>>
    /\ \A i, j \in DOMAIN requests :
         (requests[i].kind = "UPLOAD" /\ requests[j].kind = "UPLOAD" /\ i # j) =>
           requests[i].target[1] # requests[j].target[1]

\* two rows ingested under the same file name
C5_Witness ==
    /\ successful_uploads = 2
    /\ \E i, j \in DOMAIN requests :
         /\ requests[i].kind = "INSERT" /\ requests[j].kind = "INSERT"
         /\ requests[i].target.id # requests[j].target.id
         /\ requests[i].target.filename = requests[j].target.filename

-----------------------------------------------------------------------------
(* C6 *)

\* C6: in every record sent to the catalog, last_modified is the current time
\* (the value of upload_date) when no date was supplied for the row and the
\* supplied date when one was; title is the file name when no name was
\* supplied.
C6_RecordDefaults ==
    \A i \in DOMAIN requests :
      requests[i].kind = "INSERT" =>
        LET rec == requests[i].target
            r == requests[i].row
        IN /\ rec.upload_date.kind = "now"
           /\ rec.last_modified =
                (IF DateSupplied(r) THEN Supplied ELSE rec.upload_date)
           /\ ~args.name_column => rec.title = rec.filename
           /\ args.name_column => rec.title = rows[r].name

-----------------------------------------------------------------------------
(* C7 *)

\* the text of s after the first occurrence of pat (s holds one)
After(s, pat) == SubSeq(s, IndexOf(s, pat) + Len(pat), Len(s))

\* the text of s before the first occurrence of pat, all of s if it holds none
Before(s, pat) == IF Contains(s, pat) THEN SubSeq(s, 1, IndexOf(s, pat) - 1) ELSE s

\* the longest prefix of s that holds none of the characters stops
UpTo(s, stops) ==
    LET n == CHOOSE k \in 0..Len(s) :
               /\ \A i \in 1..k : s[i] \notin stops
               /\ (k < Len(s) => s[k + 1] \in stops)
    IN SubSeq(s, 1, n)

\* the <id> of a link that matches 'file/d/<id>/...', <<>> if it does not
ClaimedFileId(u) ==
    IF Contains(u, Tail(FileD)) THEN UpTo(After(u, Tail(FileD)), {"/", "?"}) ELSE <<>>

\* the <id> of a link that matches 'open?id=<id>&...', <<>> if it does not
ClaimedOpenId(u) ==
    IF Contains(u, OpenId) THEN UpTo(After(u, OpenId), {"&"}) ELSE <<>>

\* the resolver as the claim words it; a link that holds a pattern's marker
\* with an empty <id> is left open
ClaimedResolve(u, fetched) ==
    /\ ClaimedFileId(u) # <<>> => fetched = DirectDownload(ClaimedFileId(u))
    /\ (~Contains(u, Tail(FileD)) /\ ClaimedOpenId(u) # <<>>) =>
         fetched = DirectDownload(ClaimedOpenId(u))
    /\ (~Contains(u, Tail(FileD)) /\ ~Contains(u, OpenId)) => fetched = u

\* the resolver with the patterns tied to the provider's host
AmendedResolve(u) ==
    IF Contains(u, DriveFileMarker)
    THEN DirectDownload(UpTo(After(u, FileD), {"/", "?"}))
    ELSE IF Contains(u, DriveOpenMarker)
         THEN DirectDownload(UpTo(Before(After(u, OpenId), OpenId), {"&"}))
         ELSE u

\* C7 as stated: a link that matches 'file/d/<id>/...' is fetched from the
\* direct-download URL of that <id> (the text after 'file/d/' up to the next
\* '/', query string stripped); otherwise one that matches 'open?id=<id>&...'
\* from the direct-download URL of that <id> and nothing after '&'; every
\* other link is fetched unchanged.
C7_ResolveAsClaimed ==
    pc = "get" => ClaimedResolve(rows[index].link.text, url)

\* C7, amended: a link that holds 'drive.google.com/file/d/' is fetched from
\* the direct-download URL of the text after its first '/file/d/' up to the
\* next '/' or '?'; otherwise one that holds 'drive.google.com/open?id=' from
\* the direct-download URL of the text after its first 'open?id=' up to the
\* next '&' or 'open?id='; every other link, those with 'file/d/' or
\* 'open?id=' on another host among them, is fetched unchanged.
C7_ResolveAmended ==
    pc = "get" => url = AmendedResolve(rows[index].link.text)

\* a sharing link whose identifier is followed by a query string, resolved
C7_Witness ==
    /\ pc = "get"
    /\ rows[index].link.text = DriveFileMarker \o <<"a", "?">>
    /\ url = DirectDownload(<<"a">>)

-----------------------------------------------------------------------------
(* C8 *)

\* the kinds of row r's requests, in the order they were issued
RECURSIVE KindsFrom(_, _)
KindsFrom(r, i) ==
    IF i > Len(requests) THEN <<>>
    ELSE IF requests[i].row = r THEN <<requests[i].kind>> \o KindsFrom(r, i + 1)
    ELSE KindsFrom(r, i + 1)

Pipeline == <<"GET", "UPLOAD", "INSERT">>

\* C8: nothing is retried.  Each row's requests are a prefix of: one download
\* GET, one storage upload, one catalog insert; a request follows only
\* successful ones of its row, so a failure ends the row; the rows' requests
\* come in the rows' order; and no failed request ends the run: the loop is
\* left with an error only by a row that issued no request.
C8_NoRetry ==
    /\ \A r \in DOMAIN rows :
         LET kinds == KindsFrom(r, 1) IN
         /\ Len(kinds) <= Len(Pipeline)
         /\ kinds = SubSeq(Pipeline, 1, Len(kinds))
    /\ \A i, j \in DOMAIN requests :
         (i < j /\ requests[i].row = requests[j].row) => GoodRequest(requests[i])
    /\ \A i, j \in DOMAIN requests : i < j => requests[i].row <= requests[j].row
    /\ (pc = "exited" /\ exit_status # 0 /\ index > 0) =>
         \A i \in DOMAIN requests : requests[i].row # index

\* a row failed by its catalog insert, and the next row downloaded
C8_Witness ==
    \E i, j \in DOMAIN requests :
      /\ requests[i].kind = "INSERT"
      /\ ~GoodRequest(requests[i])
      /\ requests[j].kind = "GET"
      /\ requests[j].row = requests[i].row + 1

-----------------------------------------------------------------------------
(* C9 *)

\* C9: the scratch directory is created once, after setup and before the
\* first row, and deleted once, when the loop is left, by its end or by an
\* error; while a row is worked on, and while the directory holds a file, the
\* directory exists.
C9_ScratchLifetime ==
    /\ created <= 1 /\ deleted <= 1
    /\ created = 1 <=> temp_dir # "none"
    /\ created = 1 => pc \notin {"import", "main", "read_excel", "mkdtemp"}
    /\ index > 0 => created = 1
    /\ deleted = 1 <=> temp_dir = "deleted"
    /\ temp_dir = "deleted" <=> (pc = "exited" /\ created = 1)
    /\ pc \in {"loop", "resolve", "get", "upload", "insert"} => temp_dir = "live"
    /\ files # {} => temp_dir = "live"

\* the loop left by an error after a row had failed
C9_Witness ==
    /\ pc = "exited"
    /\ exit_status = 1
    /\ failed_uploads = 1
    /\ deleted = 1

-----------------------------------------------------------------------------
(* C10 *)

\* the rows with a catalog insert that succeeded: 201 with the created record
Ingested == {r \in DOMAIN rows : \E i \in RequestsOf(r, "INSERT") : GoodRequest(requests[i])}

\* the non-blank rows with a request that failed
Failed ==
    {r \in DOMAIN rows :
       /\ ~BlankCell(rows[r].link)
       /\ \E i \in DOMAIN requests : requests[i].row = r /\ ~GoodRequest(requests[i])}

NonBlank == {r \in DOMAIN rows : ~BlankCell(rows[r].link)}

=============================================================================
